---- MODULE Spec2Model ----
(***************************************************************************)
(* Model of the portfolio chatbot: SmartAIPortfolio (src/smart_ai.py), the *)
(* Flask handlers /chat and /update-resume (src/app.py), the legacy        *)
(* retrieve wrapper (src/rag.py) and the ingestion job (src/notion.py).    *)
(*                                                                         *)
(* Text is a sequence of one-character strings, so that lower(), split(),  *)
(* strip(), slicing and the substring test `word in text` are computed the *)
(* way Python computes them.  A call's result is a record [exc, val]: exc  *)
(* is TRUE when the call propagates an exception to its caller.            *)
(***************************************************************************)
EXTENDS Integers, Sequences, FiniteSets, TLC

VARIABLES
    resume_data,    \* self.resume_data   (smart_ai.py:23)
    faiss_index,    \* self.faiss_index   (smart_ai.py:24)
    bm25_data,      \* self.bm25_data     (smart_ai.py:25)
    disk,           \* the artifacts under db/ written by notion.py
    chat_context,   \* app.py:35, deque(maxlen=5)
    queries,        \* number of /chat requests answered so far
    loaded_from,    \* history: the files the latest load of the artifacts read
    owners,         \* history: the session that produced each entry of chat_context
    threads,        \* the requests in progress, when handled step by step
    last            \* what the latest call was given and what it returned

vars == <<resume_data, faiss_index, bm25_data, disk, chat_context, queries,
          loaded_from, owners, threads, last>>

----------------------------------------------------------------------------
(* Bounds of the model *)

\* largest top_k of a direct retrieval call
MaxK == 3
\* longest history handed to process_query by a direct caller
MaxHist == 5
\* most turns before the latest user turn of a message list handed to
\* _call_gpt4o or _bm25_response directly
MaxEarlier == 1
\* number of /chat requests answered in one run
MaxQueries == 4

(* Program constants *)

\* app.py:35  deque(maxlen=5)
ContextMaxLen == 5
\* smart_ai.py:190  messages[-5:]
PromptTurns == 5
\* smart_ai.py:290  query_count / 5.0
QueriesForFull == 5
\* smart_ai.py:282  top_k=3
QueryTopK == 3
\* smart_ai.py:225  top_k=2
FallbackTopK == 2
\* smart_ai.py:236  context_text[:200]
SnippetLen == 200

----------------------------------------------------------------------------
(* Python values and built-ins *)

Ok(v) == [exc |-> FALSE, val |-> v]
Raised == [exc |-> TRUE, val |-> <<>>]

Min(a, b) == IF a <= b THEN a ELSE b
Max(a, b) == IF a >= b THEN a ELSE b

\* s[:n]
Take(s, n) == SubSeq(s, 1, Min(n, Len(s)))
\* s[-n:] for n >= 0 (s[-0:] is the whole of s)
LastN(s, n) == IF n = 0 THEN s ELSE SubSeq(s, Max(1, Len(s) - n + 1), Len(s))
\* s[::-1]
Reverse(s) == [i \in 1..Len(s) |-> s[Len(s) + 1 - i]]

Upper == <<"A", "B", "C", "D", "E", "F", "G", "H", "I", "J", "K", "L", "M",
           "N", "O", "P", "Q", "R", "S", "T", "U", "V", "W", "X", "Y", "Z">>
Lowercase == <<"a", "b", "c", "d", "e", "f", "g", "h", "i", "j", "k", "l", "m",
           "n", "o", "p", "q", "r", "s", "t", "u", "v", "w", "x", "y", "z">>

LowerOf ==
    [c \in {Upper[i] : i \in 1..Len(Upper)} |->
        Lowercase[CHOOSE i \in 1..Len(Upper) : Upper[i] = c]]

LowerChar(c) == IF c \in DOMAIN LowerOf THEN LowerOf[c] ELSE c

\* str.lower()
Lower(text) == [i \in 1..Len(text) |-> LowerChar(text[i])]

IsSpace(c) == c \in {" ", "\n", "\t"}

\* `word in text`: word occurs in text as a substring
Contains(text, word) ==
    \E i \in 1..(Len(text) - Len(word) + 1) :
        SubSeq(text, i, i + Len(word) - 1) = word

\* str.strip()
RECURSIVE LStrip(_)
LStrip(text) ==
    IF text # <<>> /\ IsSpace(Head(text)) THEN LStrip(Tail(text)) ELSE text

Strip(text) == Reverse(LStrip(Reverse(LStrip(text))))

\* str.split(): the maximal runs of non-whitespace characters
RECURSIVE SplitFrom(_, _, _)
SplitFrom(text, word, acc) ==
    IF text = <<>>
    THEN IF word = <<>> THEN acc ELSE Append(acc, word)
    ELSE IF IsSpace(Head(text))
         THEN SplitFrom(Tail(text), <<>>,
                        IF word = <<>> THEN acc ELSE Append(acc, word))
         ELSE SplitFrom(Tail(text), Append(word, Head(text)), acc)

Split(text) == SplitFrom(text, <<>>, <<>>)

\* "\n".join(parts)
RECURSIVE JoinLines(_)
JoinLines(parts) ==
    IF parts = <<>> THEN <<>>
    ELSE IF Len(parts) = 1 THEN parts[1]
    ELSE parts[1] \o <<"\n">> \o JoinLines(Tail(parts))

\* list.sort(key=...) on a list of records with a numeric field score:
\* Python's sort is stable, so equal keys keep their order (insertion sort)
RECURSIVE InsertByScore(_, _)
InsertByScore(sorted, x) ==
    IF sorted = <<>> THEN <<x>>
    ELSE IF sorted[Len(sorted)].score <= x.score THEN Append(sorted, x)
    ELSE Append(InsertByScore(SubSeq(sorted, 1, Len(sorted) - 1), x),
                sorted[Len(sorted)])

RECURSIVE SortByScore(_)
SortByScore(items) ==
    IF items = <<>> THEN <<>>
    ELSE InsertByScore(SortByScore(SubSeq(items, 1, Len(items) - 1)),
                       items[Len(items)])

\* np.argsort(scores): the 0-based positions in ascending order of score;
\* for the short arrays of a resume numpy sorts by insertion, which is stable
argsort(scores) ==
    LET tagged == [i \in 1..Len(scores) |-> [score |-> scores[i], pos |-> i - 1]]
        sorted == SortByScore(tagged)
    IN  [i \in 1..Len(sorted) |-> sorted[i].pos]

\* [x for x in s if keep(x)] for a set of kept positions
RECURSIVE FilterSeq(_, _)
FilterSeq(s, keep) ==
    IF s = <<>> THEN <<>>
    ELSE (IF keep[1] THEN <<s[1]>> ELSE <<>>)
         \o FilterSeq(Tail(s), Tail(keep))

----------------------------------------------------------------------------
(* Texts *)

KwHello == <<"h", "e", "l", "l", "o">>
KwHi == <<"h", "i">>
KwHey == <<"h", "e", "y">>
KwGreetings == <<"g", "r", "e", "e", "t", "i", "n", "g", "s">>
KwProject == <<"p", "r", "o", "j", "e", "c", "t">>
KwWork == <<"w", "o", "r", "k">>
KwBuilt == <<"b", "u", "i", "l", "t">>
KwDeveloped == <<"d", "e", "v", "e", "l", "o", "p", "e", "d">>
KwSkill == <<"s", "k", "i", "l", "l">>
KwTechnology == <<"t", "e", "c", "h", "n", "o", "l", "o", "g", "y">>
KwProgramming == <<"p", "r", "o", "g", "r", "a", "m", "m", "i", "n", "g">>
KwLanguage == <<"l", "a", "n", "g", "u", "a", "g", "e">>
KwContact == <<"c", "o", "n", "t", "a", "c", "t">>
KwEmail == <<"e", "m", "a", "i", "l">>
KwLinkedin == <<"l", "i", "n", "k", "e", "d", "i", "n">>
KwGithub == <<"g", "i", "t", "h", "u", "b">>
KwAbout == <<"a", "b", "o", "u", "t">>
KwWho == <<"w", "h", "o">>
KwBackground == <<"b", "a", "c", "k", "g", "r", "o", "u", "n", "d">>
KwEducation == <<"e", "d", "u", "c", "a", "t", "i", "o", "n">>
KwQuota == <<"q", "u", "o", "t", "a">>
KwRate == <<"r", "a", "t", "e">>

\* smart_ai.py:231, 234, 240, 246, 249
GreetingWords == {KwHello, KwHi, KwHey, KwGreetings}
ProjectWords == {KwProject, KwWork, KwBuilt, KwDeveloped}
SkillWords == {KwSkill, KwTechnology, KwProgramming, KwLanguage}
ContactWords == {KwContact, KwEmail, KwLinkedin, KwGithub}
AboutWords == {KwAbout, KwWho, KwBackground, KwEducation}

\* user messages
MsgHiProject == <<"H", "i", " ", "p", "r", "o", "j", "e", "c", "t">>
MsgWork == <<"y", "o", "u", "r", " ", "w", "o", "r", "k">>
MsgWhich == <<"w", "h", "i", "c", "h", " ", "s", "k", "i", "l", "l">>
MsgSkill == <<"P", "y", "t", "h", "o", "n", " ", "s", "k", "i", "l", "l">>
MsgEmail == <<"e", "m", "a", "i", "l">>
MsgWho == <<"w", "h", "o">>
MsgNone == <<"x", "y", "z">>
MsgHola == <<"h", "o", "l", "a">>
MsgHello == <<"h", "e", "l", "l", "o">>
MsgEmpty == <<>>
MsgBlank == <<" ", " ">>
MsgPadded == <<" ", "w", "h", "o", " ">>

\* resume fragment contents
TxtAIProject == <<"A", "I", " ", "p", "r", "o", "j", "e", "c", "t">>
TxtPythonSkill == <<"P", "y", "t", "h", "o", "n", " ", "s", "k", "i", "l", "l">>
TxtAboutMe == <<"a", "b", "o", "u", "t", " ", "m", "e">>

\* descriptions str(e) of a failed generative-model call
DescQuota == <<"Q", "u", "o", "t", "a", " ", "e", "x", "c", "e", "e", "d", "e", "d">>
DescRate == <<"R", "a", "t", "e", " ", "l", "i", "m", "i", "t">>
DescAuth == <<"I", "n", "c", "o", "r", "r", "e", "c", "t", " ", "A", "P", "I", " ", "k", "e", "y">>
DescMalformed == <<"I", "n", "v", "a", "l", "i", "d", " ", "r", "e", "q", "u", "e", "s", "t">>
DescNetwork == <<"C", "o", "n", "n", "e", "c", "t", "i", "o", "n", " ", "e", "r", "r", "o", "r">>
DescRegen == <<"R", "e", "g", "e", "n", "e", "r", "a", "t", "e", " ", "k", "e", "y">>

----------------------------------------------------------------------------
(* The artifacts: fragments, lexical data, dense index *)

FragProjects == [title |-> "Projects", content |-> TxtAIProject]
FragSkills == [title |-> "Skills", content |-> TxtPythonSkill]
FragAbout == [title |-> "About", content |-> TxtAboutMe]

\* two versions of the flattened resume (notion.py:112-120)
CorpusA == <<FragProjects, FragSkills>>
CorpusB == <<FragAbout, FragProjects, FragSkills>>
Corpora == {CorpusA, CorpusB}

\* the object unpickled from db/bm25.pkl (notion.py:160): {} when the file
\* is missing or unreadable (smart_ai.py:70-78), otherwise the dictionary
\* {"bm25": scorer, "flat_resume": fragments}.  scorer is "ok" for the
\* BM25Okapi built over the fragments, "broken" for an object whose
\* get_scores raises, "none" when the key is missing.
EmptyDict == [empty |-> TRUE, bm25 |-> "none", flat_resume |-> <<>>]
Bm25Dict(scorer, frags) == [empty |-> FALSE, bm25 |-> scorer, flat_resume |-> frags]

\* the object read from db/resume_faiss.index: None, or an index of
\* ntotal vectors (smart_ai.py:61-68)
NoIndex == [present |-> FALSE, ntotal |-> 0]
FlatIndex(n) == [present |-> TRUE, ntotal |-> n]

----------------------------------------------------------------------------
(* The external services, as the outcomes a call can have *)

\* what IndexFlatL2.search(vector, k) can return for an index of ntotal
\* vectors: k hits, nearest first; the first min(k, ntotal) name distinct
\* stored positions, the rest are padded with position -1 and the largest
\* distance
RECURSIVE InjectiveSeqs(_, _)
InjectiveSeqs(S, n) ==
    IF n = 0 THEN {<<>>}
    ELSE UNION {{<<x>> \o t : t \in InjectiveSeqs(S \ {x}, n - 1)} : x \in S}

\* the distances of n hits, nearest first: each is the one before it or
\* the next larger one, which gives every pattern of ties
RECURSIVE AscendingSeqs(_, _)
AscendingSeqs(lo, n) ==
    IF n = 0 THEN {<<>>}
    ELSE UNION {{<<d>> \o t : t \in AscendingSeqs(d, n - 1)} : d \in {lo, lo + 1}}

DistancePatterns(n) ==
    IF n = 0 THEN {<<>>} ELSE {<<1>> \o t : t \in AscendingSeqs(1, n - 1)}

Padding(k) == [idx |-> -1, dist |-> k + 2]

SearchResults(ntotal, k) ==
    LET n == Min(k, ntotal)
    IN  {[i \in 1..k |-> IF i <= n THEN [idx |-> p[i], dist |-> d[i]] ELSE Padding(k)] :
            p \in InjectiveSeqs(0..(ntotal - 1), n), d \in DistancePatterns(n)}

\* the outcomes of the embedding call and of the dense search of one
\* retrieval
RetrievalEnvs(ntotal, k) ==
    {[embed |-> "fail", search_raises |-> FALSE, hits |-> <<>>],
     [embed |-> "ok", search_raises |-> TRUE, hits |-> <<>>]}
    \cup {[embed |-> "ok", search_raises |-> FALSE, hits |-> h] :
            h \in SearchResults(ntotal, k)}

\* what the translation service holds for a text (deep_translator)
Translation(text) == IF text = MsgHola THEN MsgHello ELSE text
Language(text) == IF text = MsgHola THEN "es" ELSE "en"

----------------------------------------------------------------------------
(* SmartAIPortfolio: retrieval (smart_ai.py:95-173) *)

\* name = value: a statement binds its name to the value of the right-hand
\* side once; the value is drawn from the one-element set holding it
ValueOf(S) == CHOOSE v \in S : TRUE

\* try: body / except Exception: handler
Except(body, handler) == IF body.exc THEN handler ELSE body

\* the external services a call invoked, in order: r after the invocations
\* that came before it
After(before, r) == [r EXCEPT !.calls = before \o @]

\* _get_openai_embedding: the vector, or None when the call failed
get_openai_embedding(text, env) ==
    IF env.embed = "ok" THEN [isNone |-> FALSE] ELSE [isNone |-> TRUE]

\* BM25Okapi.get_scores(tokenized_query) over the whitespace-tokenized
\* fragments (notion.py:156-157): one score per fragment, here the number
\* of occurrences of the query's tokens in the fragment
TermFrequency(token, doc) == Cardinality({i \in 1..Len(doc) : doc[i] = token})

RECURSIVE SumTermFrequency(_, _)
SumTermFrequency(tokens, doc) ==
    IF tokens = <<>> THEN 0
    ELSE TermFrequency(Head(tokens), doc) + SumTermFrequency(Tail(tokens), doc)

get_scores(flat_resume, tokenized_query) ==
    [i \in 1..Len(flat_resume) |->
        SumTermFrequency(tokenized_query, Split(flat_resume[i].content))]

\* line 159 without the final [::-1]
top_indices_ascending(scores, top_k) == LastN(argsort(scores), top_k)

\* line 159 followed by a cut-off that keeps positive scores only
top_indices_positive(scores, top_k) ==
    LET top == Reverse(LastN(argsort(scores), top_k))
    IN  FilterSeq(top, [i \in 1..Len(top) |-> scores[top[i] + 1] > 0])

\* line 159: np.argsort(scores)[-top_k:][::-1]
top_indices_of(scores, top_k) == Reverse(LastN(argsort(scores), top_k))

\* lines 154-170: the body of the try of _bm25_retrieve
bm25_ranking(data, query, top_k) ==
    LET bm25 == data.bm25
        flat_resume == data.flat_resume
    IN  IF bm25 = "none" \/ flat_resume = <<>>
        THEN [exc |-> FALSE, val |-> <<>>, path |-> "lexical", scored |-> <<>>,
              calls |-> <<>>]
        ELSE IF bm25 = "broken"
        THEN [exc |-> TRUE, val |-> <<>>, path |-> "lexical", scored |-> <<>>,
              calls |-> <<>>]
        ELSE
        LET tokenized_query == Split(query)
            scores == get_scores(flat_resume, tokenized_query)
            top_indices == top_indices_of(scores, top_k)
            in_range == [i \in 1..Len(top_indices) |->
                            0 <= top_indices[i] /\ top_indices[i] < Len(flat_resume)]
            kept == FilterSeq(top_indices, in_range)
            results_with_scores ==
                [i \in 1..Len(kept) |->
                    [content |-> flat_resume[kept[i] + 1].content,
                     title |-> flat_resume[kept[i] + 1].title,
                     score |-> scores[kept[i] + 1],
                     idx |-> kept[i]]]
        IN  [exc |-> FALSE,
             val |-> [i \in 1..Len(results_with_scores) |-> results_with_scores[i].content],
             path |-> "lexical",
             scored |-> results_with_scores,
             calls |-> <<>>]

NoResults == [exc |-> FALSE, val |-> <<>>, path |-> "lexical", scored |-> <<>>,
              calls |-> <<>>]

\* _bm25_retrieve without its try/except
bm25_retrieve_unguarded(self, query, top_k) ==
    IF self.bm25_data.empty
    THEN NoResults
    ELSE bm25_ranking(self.bm25_data, query, top_k)

\* _bm25_retrieve (smart_ai.py:142-173)
bm25_retrieve(self, query, top_k) ==
    IF self.bm25_data.empty
    THEN NoResults
    ELSE Except(bm25_ranking(self.bm25_data, query, top_k), NoResults)

\* lines 118-137: the body of the try of _semantic_retrieve
dense_ranking(self, top_k, env) ==
    IF env.search_raises
    THEN [exc |-> TRUE, val |-> <<>>, path |-> "dense", scored |-> <<>>,
          calls |-> <<"search">>]
    ELSE
    LET hits == env.hits
        flat_resume == self.bm25_data.flat_resume
        in_range == [i \in 1..Len(hits) |->
                        0 <= hits[i].idx /\ hits[i].idx < Len(flat_resume)]
        kept == FilterSeq(hits, in_range)
        results_with_scores ==
            SortByScore([i \in 1..Len(kept) |->
                [content |-> flat_resume[kept[i].idx + 1].content,
                 title |-> flat_resume[kept[i].idx + 1].title,
                 score |-> kept[i].dist,
                 idx |-> kept[i].idx]])
    IN  [exc |-> FALSE,
         val |-> [i \in 1..Len(results_with_scores) |-> results_with_scores[i].content],
         path |-> "dense",
         scored |-> results_with_scores,
         calls |-> <<"search">>]

\* _semantic_retrieve giving up, instead of going lexical, when the
\* embedding call failed
semantic_retrieve_gives_up(self, query, top_k, env) ==
    IF ~self.faiss_index.present \/ self.bm25_data.empty
    THEN bm25_retrieve(self, query, top_k)
    ELSE IF get_openai_embedding(query, env).isNone
    THEN After(<<"embed">>, NoResults)
    ELSE After(<<"embed">>,
               Except(dense_ranking(self, top_k, env),
                      After(<<"search">>, bm25_retrieve(self, query, top_k))))

\* _semantic_retrieve asking for the embedding a second time when the first
\* call failed
semantic_retrieve_retrying(self, query, top_k, env) ==
    IF ~self.faiss_index.present \/ self.bm25_data.empty
    THEN bm25_retrieve(self, query, top_k)
    ELSE IF get_openai_embedding(query, env).isNone
    THEN After(<<"embed", "embed">>, bm25_retrieve(self, query, top_k))
    ELSE After(<<"embed">>,
               Except(dense_ranking(self, top_k, env),
                      After(<<"search">>, bm25_retrieve(self, query, top_k))))

\* _semantic_retrieve (smart_ai.py:107-140)
semantic_retrieve(self, query, top_k, env) ==
    IF ~self.faiss_index.present \/ self.bm25_data.empty
    THEN bm25_retrieve(self, query, top_k)
    ELSE IF get_openai_embedding(query, env).isNone
    THEN After(<<"embed">>, bm25_retrieve(self, query, top_k))
    ELSE After(<<"embed">>,
               Except(dense_ranking(self, top_k, env),
                      After(<<"search">>, bm25_retrieve(self, query, top_k))))

----------------------------------------------------------------------------
(* Loading the artifacts (smart_ai.py:14-78) *)

\* a file under db/: missing, corrupt (unreadable), or ok with its content
MissingFile == [state |-> "missing", scorer |-> "none", ntotal |-> 0, data |-> <<>>]
CorruptFile == [state |-> "corrupt", scorer |-> "none", ntotal |-> 0, data |-> <<>>]
JsonFile(frags) == [state |-> "ok", scorer |-> "none", ntotal |-> 0, data |-> frags]
IndexFile(n) == [state |-> "ok", scorer |-> "none", ntotal |-> n, data |-> <<>>]
PickleFile(scorer, frags) == [state |-> "ok", scorer |-> scorer, ntotal |-> 0, data |-> frags]

\* _load_resume_data: only FileNotFoundError is caught, so a file that is
\* not JSON raises
load_resume_data(d) ==
    IF d.resume_json.state = "missing" THEN Ok(<<>>)
    ELSE IF d.resume_json.state = "corrupt" THEN Raised
    ELSE Ok(d.resume_json.data)

\* _load_faiss_index without its try/except around faiss.read_index
load_faiss_index_unguarded(d) ==
    IF d.faiss.state = "ok" THEN Ok(FlatIndex(d.faiss.ntotal))
    ELSE IF d.faiss.state = "corrupt" THEN Raised
    ELSE Ok(NoIndex)

\* _load_faiss_index: None when the file is missing or cannot be read
load_faiss_index(d) ==
    IF d.faiss.state = "ok" THEN Ok(FlatIndex(d.faiss.ntotal)) ELSE Ok(NoIndex)

\* _load_bm25_data: {} when the file is missing or cannot be unpickled
load_bm25_data(d) ==
    IF d.bm25.state = "ok" THEN Ok(Bm25Dict(d.bm25.scorer, d.bm25.data)) ELSE Ok(EmptyDict)

\* SmartAIPortfolio(): the three loads in the order of __init__
construct(d) ==
    LET r == load_resume_data(d)
        f == load_faiss_index(d)
        b == load_bm25_data(d)
    IN  IF r.exc \/ f.exc \/ b.exc THEN Raised
        ELSE Ok([resume_data |-> r.val, faiss_index |-> f.val, bm25_data |-> b.val])

\* the instance the handlers use
Self == [resume_data |-> resume_data, faiss_index |-> faiss_index, bm25_data |-> bm25_data]

\* rag.py:4-12  retrieve: a fresh instance, then _semantic_retrieve
retrieve(d, query, top_k, env) ==
    LET ai_system == construct(d)
    IN  IF ai_system.exc THEN NoResults
        ELSE Except(semantic_retrieve(ai_system.val, query, top_k, env), NoResults)

----------------------------------------------------------------------------
(* Message contents and answers *)

\* a string: plain text, or one of the canned answers of smart_ai.py with
\* the snippet interpolated into it; note is the language note appended by
\* process_query ("" when there is none)
Plain(text) == [kind |-> "text", text |-> text, snippet |-> <<>>, note |-> ""]
Canned(name, snippet) == [kind |-> name, text |-> <<>>, snippet |-> snippet, note |-> ""]

\* smart_ai.py:207
Apology == Canned("apology", <<>>)
\* smart_ai.py:212, 222
Intro == Canned("intro", <<>>)

\* `not s` for a string
IsEmptyStr(c) == c.kind = "text" /\ c.text = <<>> /\ c.note = ""

UserTurn(text) == [role |-> "user", content |-> Plain(text)]
AssistantTurn(answer) == [role |-> "assistant", content |-> answer]

\* what the generative model writes: the completion, before strip()
ReplyRaw == <<" ", "S", "u", "r", "e", "!", "\n">>

\* a failed call of the generative model: what went wrong and str(e)
Failure(kind, desc) == [ok |-> FALSE, kind |-> kind, desc |-> desc]
GptOk == [ok |-> TRUE, kind |-> "none", desc |-> <<>>]
Failures ==
    {Failure("quota", DescQuota), Failure("rate_limit", DescRate),
     Failure("auth", DescAuth), Failure("malformed", DescMalformed),
     Failure("network", DescNetwork), Failure("auth", DescRegen)}
GptOutcomes == {GptOk} \cup Failures

----------------------------------------------------------------------------
(* SmartAIPortfolio: answering (smart_ai.py:81-93, 175-303, 350-357) *)

\* _detect_language answering "unknown" instead of "en" when detection fails
detect_language_unknown(text, env) ==
    IF env.detect = "ok" THEN Ok(Language(text)) ELSE Ok("unknown")

\* _detect_language
detect_language(text, env) ==
    IF env.detect = "ok" THEN Ok(Language(text)) ELSE Ok("en")

\* _translate_to_english without its try/except
translate_to_english_unguarded(text, env) ==
    IF env.translate = "ok" THEN Ok(Translation(text)) ELSE Raised

\* _translate_to_english
translate_to_english(text, env) ==
    IF env.translate = "ok" THEN Ok(Translation(text)) ELSE Ok(text)

\* lines 216-219: the content of the latest user message, "" without one
RECURSIVE latest_user_message(_)
latest_user_message(messages) ==
    IF messages = <<>> THEN Plain(<<>>)
    ELSE IF messages[Len(messages)].role = "user"
         THEN messages[Len(messages)].content
         ELSE latest_user_message(SubSeq(messages, 1, Len(messages) - 1))

\* any(word in user_lower for word in words)
AnyWordIn(words, user_lower) == \E word \in words : Contains(user_lower, word)

\* the keyword chain with the project test moved before the greeting test
classify_project_first(user_lower) ==
    IF AnyWordIn(ProjectWords, user_lower) THEN "project"
    ELSE IF AnyWordIn(GreetingWords, user_lower) THEN "greeting"
    ELSE IF AnyWordIn(SkillWords, user_lower) THEN "skill"
    ELSE IF AnyWordIn(ContactWords, user_lower) THEN "contact"
    ELSE IF AnyWordIn(AboutWords, user_lower) THEN "about"
    ELSE "not_sure"

\* lines 229-256: the keyword chain
classify(user_lower) ==
    IF AnyWordIn(GreetingWords, user_lower) THEN "greeting"
    ELSE IF AnyWordIn(ProjectWords, user_lower) THEN "project"
    ELSE IF AnyWordIn(SkillWords, user_lower) THEN "skill"
    ELSE IF AnyWordIn(ContactWords, user_lower) THEN "contact"
    ELSE IF AnyWordIn(AboutWords, user_lower) THEN "about"
    ELSE "not_sure"

\* the canned answer of a category; project, skill and about interpolate
\* context_text[:200] when there is context and have a plain variant
template(category, context_text) ==
    IF category \in {"project", "skill", "about"}
    THEN IF context_text # <<>>
         THEN Canned(category, Take(context_text, SnippetLen))
         ELSE Canned(category, <<>>)
    ELSE Canned(category, <<>>)

\* lines 225-226 reusing the context computed upstream when there is one
fallback_context_reused(self, user_message, context) ==
    IF context # <<>> THEN [exc |-> FALSE, val |-> context]
    ELSE LET relevant_content == bm25_retrieve(self, user_message, FallbackTopK)
         IN  [exc |-> relevant_content.exc, val |-> JoinLines(relevant_content.val)]

\* lines 225-226: the fallback's own retrieval and its context_text
fallback_context(self, user_message, context) ==
    LET relevant_content == bm25_retrieve(self, user_message, FallbackTopK)
    IN  [exc |-> relevant_content.exc, val |-> JoinLines(relevant_content.val)]

\* _bm25_response (smart_ai.py:209-256)
bm25_response(self, messages, context) ==
    IF messages = <<>> THEN [exc |-> FALSE, val |-> Intro, category |-> "none"]
    ELSE
    LET user_message == latest_user_message(messages)
    IN  IF IsEmptyStr(user_message)
        THEN [exc |-> FALSE, val |-> Intro, category |-> "none"]
        ELSE
        LET context_text == fallback_context(self, user_message.text, context)
            user_lower == Lower(user_message.text)
            category == classify(user_lower)
        IN  IF context_text.exc
            THEN [exc |-> TRUE, val |-> Intro, category |-> "none"]
            ELSE [exc |-> FALSE, val |-> template(category, context_text.val),
                  category |-> category]

\* line 204: "quota" in str(e).lower() or "rate" in str(e).lower()
is_quota_issue(desc) ==
    Contains(Lower(desc), KwQuota) \/ Contains(Lower(desc), KwRate)

\* the system message followed by every message, without the slice
formatted_messages_all(messages, context) ==
    <<[role |-> "system",
       content |-> Plain(IF Strip(context) # <<>> THEN context ELSE <<>>)]>>
    \o messages

\* lines 180-190: the messages sent to the model
formatted_messages(messages, context) ==
    <<[role |-> "system",
       content |-> Plain(IF Strip(context) # <<>> THEN context ELSE <<>>)]>>
    \o LastN(messages, PromptTurns)

\* _call_gpt4o (smart_ai.py:175-207); path and sent record the branch taken
\* and the messages handed to the model
call_gpt4o(self, messages, context, gpt) ==
    LET sent == formatted_messages(messages, context)
    IN  IF gpt.ok
        THEN [exc |-> FALSE, val |-> Plain(Strip(ReplyRaw)), path |-> "model", sent |-> sent,
              calls |-> <<"gpt">>]
        ELSE IF is_quota_issue(gpt.desc)
        THEN LET r == bm25_response(self, messages, context)
             IN  [exc |-> r.exc, val |-> r.val, path |-> "templated", sent |-> sent,
                  calls |-> <<"gpt">>]
        ELSE [exc |-> FALSE, val |-> Apology, path |-> "apology", sent |-> sent,
              calls |-> <<"gpt">>]

\* counting every turn of the history, whatever its role
user_messages_any_role(chat_history) == Len(chat_history)

\* len([msg for msg in chat_history if msg.get("role") == "user"])
user_messages(chat_history) ==
    Cardinality({i \in 1..Len(chat_history) : chat_history[i].role = "user"})

\* min(query_count / 5.0, 1.0), in hundredths
coverage_of(query_count) == Min((query_count * 100) \div QueriesForFull, 100)

\* get_context_coverage (smart_ai.py:350-357)
get_context_coverage(query, chat_history) ==
    Ok(coverage_of(user_messages(chat_history) + 1))

\* user_lang.upper()
UpperLang(lang) == IF lang = "es" THEN "ES" ELSE IF lang = "en" THEN "EN" ELSE lang

\* chat_history.append(turn); messages = chat_history: the caller's list
\* grows with the call
build_messages_in_place(chat_history, turn) ==
    [messages |-> Append(chat_history, turn), chat_history |-> Append(chat_history, turn)]

\* line 293: messages = chat_history + [turn] is a new list; chat_history is
\* the caller's list after the statement
build_messages(chat_history, turn) ==
    [messages |-> Append(chat_history, turn), chat_history |-> chat_history]

\* process_query, lines 286-303: coverage, the answer, the language note
\* and the pair returned (with the branch taken and the caller's list as
\* the call leaves it, for the record)
query_respond(self, user_lang, relevant_content, context_text, built, chat_history, env) ==
    ValueOf({
        LET query_count == user_messages(chat_history) + 1
            context_coverage == coverage_of(query_count)
            noted == IF user_lang.val # "en"
                     THEN [response.val EXCEPT !.note = UpperLang(user_lang.val)]
                     ELSE response.val
        IN  [exc |-> user_lang.exc \/ relevant_content.exc \/ response.exc,
             response |-> noted,
             coverage |-> context_coverage,
             chat_history |-> built.chat_history,
             retrieval |-> relevant_content.path,
             context |-> context_text,
             path |-> response.path,
             sent |-> response.sent,
             calls |-> <<"detect", "translate">> \o relevant_content.calls
                            \o response.calls] :
        response \in {call_gpt4o(self, built.messages, context_text, env.gpt)}})

\* process_query, lines 281-303: retrieval, context_text and messages
query_retrieve(self, user_lang, user_msg_en, chat_history, env) ==
    ValueOf({
        ValueOf({
            query_respond(self, user_lang, relevant_content, context_text, built,
                          chat_history, env) :
            context_text \in {JoinLines(relevant_content.val)},
            built \in {build_messages(chat_history, UserTurn(user_msg_en))}}) :
        relevant_content \in {semantic_retrieve(self, user_msg_en, QueryTopK, env)}})

\* process_query (smart_ai.py:272-303)
process_query(self, user_input, chat_history, env) ==
    ValueOf({
        IF user_msg_en.exc
        THEN [exc |-> TRUE, response |-> Apology, coverage |-> 0,
              chat_history |-> chat_history, retrieval |-> "none", context |-> <<>>,
              path |-> "none", sent |-> <<>>, calls |-> <<"detect", "translate">>]
        ELSE query_retrieve(self, user_lang, user_msg_en.val, chat_history, env) :
        user_lang \in {detect_language(user_input, env)},
        user_msg_en \in {translate_to_english(user_input, env)}})

----------------------------------------------------------------------------
(* Direct calls of the engine's functions on a loaded instance.  A caller  *)
(* makes one call at a time: last holds the call and its result until the  *)
(* caller takes it (Return).                                               *)

\* the states of db/ an instance can have been constructed from
LexicalFiles ==
    {MissingFile, PickleFile("ok", CorpusA), PickleFile("ok", CorpusB),
     PickleFile("broken", CorpusA)}
IndexFiles == {MissingFile, CorruptFile, IndexFile(Len(CorpusA)), IndexFile(Len(CorpusB))}

DiskOf(f, b) ==
    [resume_json |-> IF b.state = "ok" THEN JsonFile(b.data) ELSE MissingFile,
     faiss |-> f, bm25 |-> b]

DiskStates == {DiskOf(f, b) : f \in IndexFiles, b \in LexicalFiles}

RECURSIVE SeqsUpTo(_, _)
SeqsUpTo(S, n) ==
    IF n = 0 THEN {<<>>}
    ELSE SeqsUpTo(S, n - 1)
         \cup {Append(t, x) : t \in {u \in SeqsUpTo(S, n - 1) : Len(u) = n - 1}, x \in S}

\* English queries
Queries == {MsgHiProject, MsgSkill, MsgWho, MsgNone, MsgEmpty}

\* the messages a user turn can hold
UserTexts ==
    {MsgHiProject, MsgWork, MsgWhich, MsgSkill, MsgEmail, MsgWho, MsgNone, MsgHello, MsgEmpty}

\* message lists: some earlier turns, the latest user turn, and the turns
\* after it; and the lists without a user turn
EarlierTurns == SeqsUpTo({UserTurn(MsgWho), AssistantTurn(Apology)}, MaxEarlier)
LaterTurns == {<<>>, <<AssistantTurn(Apology)>>}

MessageLists ==
    {e \o <<UserTurn(m)>> \o l : e \in EarlierTurns, m \in UserTexts, l \in LaterTurns}
    \cup LaterTurns

Contexts == {<<>>, TxtAboutMe}

Idle == [op |-> "none"]

\* no request is in progress
NoThreads == [reload |-> [pc |-> "idle"], retrieve |-> [pc |-> "idle"]]

Loaded(d) ==
    /\ disk = d
    /\ resume_data = construct(d).val.resume_data
    /\ faiss_index = construct(d).val.faiss_index
    /\ bm25_data = construct(d).val.bm25_data
    /\ chat_context = <<>>
    /\ queries = 0
    /\ loaded_from = [by |-> "init", files |-> d]
    /\ owners = <<>>
    /\ threads = NoThreads
    /\ last = Idle

InitCore == \E d \in DiskStates : Loaded(d)

Returns(call) ==
    /\ last' = call
    /\ UNCHANGED <<resume_data, faiss_index, bm25_data, disk, chat_context, queries,
                                loaded_from, owners, threads>>

Call_semantic_retrieve ==
    /\ last = Idle
    /\ \E top_k \in 1..MaxK :
        \E env \in RetrievalEnvs(faiss_index.ntotal, top_k), query \in Queries :
            Returns([op |-> "semantic_retrieve", query |-> query, top_k |-> top_k,
                     env |-> env,
                     result |-> semantic_retrieve(Self, query, top_k, env)])

Call_bm25_retrieve ==
    /\ last = Idle
    /\ \E query \in Queries, top_k \in 1..MaxK :
        Returns([op |-> "bm25_retrieve", query |-> query, top_k |-> top_k,
                 result |-> bm25_retrieve(Self, query, top_k)])

Call_retrieve ==
    /\ last = Idle
    /\ \E top_k \in 1..MaxK :
        \E env \in RetrievalEnvs(disk.faiss.ntotal, top_k), query \in Queries :
            Returns([op |-> "retrieve", query |-> query, top_k |-> top_k,
                     env |-> env,
                     result |-> retrieve(disk, query, top_k, env)])

Call_call_gpt4o ==
    /\ last = Idle
    /\ \E messages \in MessageLists, context \in Contexts, gpt \in GptOutcomes :
        Returns([op |-> "call_gpt4o", messages |-> messages, context |-> context,
                 gpt |-> gpt,
                 result |-> call_gpt4o(Self, messages, context, gpt)])

Call_bm25_response ==
    /\ last = Idle
    /\ \E messages \in MessageLists, context \in Contexts :
        Returns([op |-> "bm25_response", messages |-> messages, context |-> context,
                 result |-> bm25_response(Self, messages, context)])

Return ==
    /\ last # Idle
    /\ last' = Idle
    /\ UNCHANGED <<resume_data, faiss_index, bm25_data, disk, chat_context, queries,
                                loaded_from, owners, threads>>

NextCore ==
    \/ Call_semantic_retrieve
    \/ Call_bm25_retrieve
    \/ Call_retrieve
    \/ Call_call_gpt4o
    \/ Call_bm25_response
    \/ Return

SpecCore == InitCore /\ [][NextCore]_vars

----------------------------------------------------------------------------
(* Direct calls of process_query and get_context_coverage *)

QueryDiskStates ==
    {DiskOf(MissingFile, MissingFile),
     DiskOf(MissingFile, PickleFile("ok", CorpusB)),
     DiskOf(IndexFile(Len(CorpusA)), PickleFile("ok", CorpusA)),
     DiskOf(IndexFile(Len(CorpusB)), PickleFile("ok", CorpusB)),
     DiskOf(IndexFile(Len(CorpusA)), PickleFile("broken", CorpusA))}

UserInputs == {MsgHiProject, MsgSkill, MsgHola, MsgNone, MsgEmpty}

\* histories of up to MaxHist turns: user turns only, or a dialogue that
\* starts with either role (the window of app.py starts with an assistant
\* turn once its oldest user turn is evicted)
Dialogue(n, first) ==
    [i \in 1..n |-> IF (i % 2 = 1) = (first = "user")
                    THEN UserTurn(MsgWho) ELSE AssistantTurn(Apology)]

Histories ==
    UNION {{[i \in 1..n |-> UserTurn(MsgWho)], Dialogue(n, "user"), Dialogue(n, "assistant")} :
            n \in 0..MaxHist}

\* the outcomes of the external calls of one process_query; the embedding
\* and the dense search are only reached with both artifacts loaded
QueryEnvs(self) ==
    {[detect |-> d, translate |-> t, embed |-> r.embed,
      search_raises |-> r.search_raises, hits |-> r.hits, gpt |-> g] :
        d \in {"ok", "fail"}, t \in {"ok", "fail"}, g \in GptOutcomes,
        r \in IF self.faiss_index.present /\ ~self.bm25_data.empty
              THEN RetrievalEnvs(self.faiss_index.ntotal, QueryTopK)
              ELSE {[embed |-> "fail", search_raises |-> FALSE, hits |-> <<>>]}}

InitQuery == \E d \in QueryDiskStates : Loaded(d)

Call_process_query ==
    /\ last = Idle
    /\ \E env \in QueryEnvs(Self) :
        \E user_input \in UserInputs, chat_history \in Histories :
            Returns([op |-> "process_query", user_input |-> user_input,
                     chat_history |-> chat_history,
                     detect |-> env.detect, translate |-> env.translate,
                     embed |-> env.embed, search_raises |-> env.search_raises,
                     hits |-> env.hits, gpt |-> env.gpt,
                     result |-> process_query(Self, user_input, chat_history, env)])

Call_get_context_coverage ==
    /\ last = Idle
    /\ \E query \in UserInputs, chat_history \in Histories :
        Returns([op |-> "get_context_coverage", query |-> query,
                 chat_history |-> chat_history,
                 result |-> get_context_coverage(query, chat_history)])

NextQuery ==
    \/ Call_process_query
    \/ Call_get_context_coverage
    \/ Return

SpecQuery == InitQuery /\ [][NextQuery]_vars

----------------------------------------------------------------------------
(* The web layer: /chat (app.py:76-108) *)

\* append to a deque that has no maxlen
deque_append_unbounded(d, x) == Append(d, x)

\* deque(maxlen=5).append(x): a full deque drops its oldest entry
deque_append(d, x) ==
    IF Len(d) = ContextMaxLen THEN Append(Tail(d), x) ELSE Append(d, x)

\* app.py:81
InvalidMessage == Canned("invalid", <<>>)

\* the messages a browser posts, and who posts them
ChatMessages == {MsgSkill, MsgBlank, MsgPadded}
Sessions == {"s1", "s2"}
\* the messages are English, so the language services do not change the answer
ChatGptOutcomes == {GptOk, Failure("quota", DescQuota), Failure("network", DescNetwork)}

ChatEnvs(self) ==
    {e \in QueryEnvs(self) :
        e.gpt \in ChatGptOutcomes /\ e.detect = "ok" /\ e.translate = "ok"}

\* the instance of a deployment whose embeddings could not be built: the
\* lexical data alone
InitChat == Loaded(DiskOf(MissingFile, PickleFile("ok", CorpusA)))

\* chat(): an empty message is answered at once; otherwise process_query
\* gets a copy of the window, and the raw message and the response are
\* appended to the window
chat ==
    /\ queries < MaxQueries
    /\ \E session_id \in Sessions, message \in ChatMessages :
        \E user_raw \in {Strip(message)} :
            IF user_raw = <<>>
            THEN /\ last' = [op |-> "chat", session_id |-> session_id, message |-> message,
                             answered |-> FALSE, exc |-> FALSE,
                             response |-> InvalidMessage, context_coverage |-> 0,
                             before |-> chat_context, before_owners |-> owners,
                             n |-> queries]
                 /\ UNCHANGED <<resume_data, faiss_index, bm25_data, disk, chat_context, queries,
                                loaded_from, owners, threads>>
            ELSE \E env \in ChatEnvs(Self) :
                \E r \in {process_query(Self, user_raw, chat_context, env)} :
                    IF r.exc
                    THEN /\ last' = [op |-> "chat", session_id |-> session_id,
                                     message |-> message, answered |-> FALSE, exc |-> TRUE,
                                     response |-> InvalidMessage, context_coverage |-> 0,
                                     before |-> chat_context, before_owners |-> owners,
                                     n |-> queries]
                         /\ UNCHANGED <<resume_data, faiss_index, bm25_data, disk,
                                        chat_context, queries, loaded_from, owners, threads>>
                    ELSE /\ chat_context' =
                                deque_append(deque_append(chat_context, UserTurn(user_raw)),
                                             AssistantTurn(r.response))
                         /\ queries' = queries + 1
                         /\ last' = [op |-> "chat", session_id |-> session_id,
                                     message |-> message, answered |-> TRUE, exc |-> FALSE,
                                     response |-> r.response,
                                     context_coverage |-> r.coverage,
                                     before |-> chat_context, before_owners |-> owners,
                                     n |-> queries + 1]
                         /\ owners' = deque_append(deque_append(owners, session_id),
                                                    session_id)
                         /\ UNCHANGED <<resume_data, faiss_index, bm25_data, disk,
                                        loaded_from, threads>>

NextChat == chat

SpecChat == InitChat /\ [][NextChat]_vars

----------------------------------------------------------------------------
(* The ingestion job and the reload: notion.py:103-161, smart_ai.py:306-348, *)
(* app.py:110-119                                                           *)

\* how one run of notion.py ends:
\*   fetch_failed   fetch_hierarchical_sections raised, nothing was written
\*   index_failed   the JSON was written, writing the dense index failed
\*                  part-way and left an unreadable file
\*   embed_failed   an embedding call failed: the JSON and the lexical data
\*                  were written, the dense index file was left as it was
\*   done           all three artifacts were written
JobOutcomes == {"fetch_failed", "index_failed", "embed_failed", "done"}

\* save_json_and_build_index for the resume `corpus`: the exit code and the
\* files afterwards
save_json_and_build_index(d, corpus, outcome) ==
    IF outcome = "fetch_failed" THEN [returncode |-> 1, disk |-> d]
    ELSE IF outcome = "index_failed"
    THEN [returncode |-> 1,
          disk |-> [d EXCEPT !.resume_json = JsonFile(corpus), !.faiss = CorruptFile]]
    ELSE IF outcome = "embed_failed"
    THEN [returncode |-> 0,
          disk |-> [d EXCEPT !.resume_json = JsonFile(corpus),
                             !.bm25 = PickleFile("ok", corpus)]]
    ELSE [returncode |-> 0,
          disk |-> [resume_json |-> JsonFile(corpus),
                    faiss |-> IndexFile(Len(corpus)),
                    bm25 |-> PickleFile("ok", corpus)]]

\* _update_embeddings: run the job, raise on a non-zero exit code, reload
\* the three artifacts one after the other (lines 328, 331, 337); every
\* exception is caught and printed by the method itself, and what was
\* assigned before it stays assigned.  self is the instance afterwards,
\* loading says whether the reload steps were started.
update_embeddings(self, d, corpus, outcome) ==
    LET job == save_json_and_build_index(d, corpus, outcome)
        r == load_resume_data(job.disk)
        f == load_faiss_index(job.disk)
        b == load_bm25_data(job.disk)
    IN  IF job.returncode # 0
        THEN [exc |-> FALSE, failed |-> TRUE, loading |-> FALSE, self |-> self,
              disk |-> job.disk]
        ELSE IF r.exc
        THEN [exc |-> FALSE, failed |-> TRUE, loading |-> TRUE, self |-> self,
              disk |-> job.disk]
        ELSE IF f.exc
        THEN [exc |-> FALSE, failed |-> TRUE, loading |-> TRUE,
              self |-> [self EXCEPT !.resume_data = r.val],
              disk |-> job.disk]
        ELSE IF b.exc
        THEN [exc |-> FALSE, failed |-> TRUE, loading |-> TRUE,
              self |-> [self EXCEPT !.resume_data = r.val, !.faiss_index = f.val],
              disk |-> job.disk]
        ELSE [exc |-> FALSE, failed |-> FALSE, loading |-> TRUE,
              self |-> [resume_data |-> r.val, faiss_index |-> f.val, bm25_data |-> b.val],
              disk |-> job.disk]

\* update_resume(): 500 with status "error" when _update_embeddings raises,
\* status "success" otherwise
update_resume ==
    /\ last = Idle
    /\ \E corpus \in Corpora, outcome \in JobOutcomes :
        \E u \in {update_embeddings(Self, disk, corpus, outcome)} :
            /\ resume_data' = u.self.resume_data
            /\ faiss_index' = u.self.faiss_index
            /\ bm25_data' = u.self.bm25_data
            /\ disk' = u.disk
            /\ loaded_from' = IF u.loading THEN [by |-> "reload", files |-> u.disk]
                              ELSE loaded_from
            /\ last' = [op |-> "update_resume", outcome |-> outcome,
                        job_failed |-> u.failed,
                        loading |-> u.loading,
                        index_unreadable |-> (u.disk.faiss.state = "corrupt"),
                        status |-> IF u.exc THEN "error" ELSE "success",
                        code |-> IF u.exc THEN 500 ELSE 200,
                        before |-> Self]
            /\ UNCHANGED <<chat_context, queries, owners, threads>>

InitReload ==
    \E d \in {DiskOf(MissingFile, MissingFile),
              DiskOf(IndexFile(Len(CorpusA)), PickleFile("ok", CorpusA))} : Loaded(d)

NextReload ==
    \/ update_resume
    \/ Call_semantic_retrieve
    \/ Return

SpecReload == InitReload /\ [][NextReload]_vars

----------------------------------------------------------------------------
(* A reload and a retrieval handled by two threads of the server           *)
(* (app.py:230, app.run() serves each request in its own thread).  Each    *)
(* step is one read or one assignment of an attribute of the shared        *)
(* instance.                                                               *)

\* the runs of notion.py that build every artifact or none, so that the
\* artifacts on disk always belong together
SwapOutcomes == {"fetch_failed", "done"}

\* smart_ai.py:317-324: the job ran; a non-zero exit code ends the reload
Reload_run_job ==
    /\ threads.reload.pc = "idle"
    /\ \E corpus \in Corpora, outcome \in SwapOutcomes :
        \E job \in {save_json_and_build_index(disk, corpus, outcome)} :
            /\ disk' = job.disk
            /\ threads' = [threads EXCEPT !.reload =
                    [pc |-> IF job.returncode = 0 THEN "resume" ELSE "idle"]]
            /\ UNCHANGED <<resume_data, faiss_index, bm25_data, chat_context, queries,
                           loaded_from, owners, last>>

\* line 328: self.resume_data = self._load_resume_data()
Reload_resume_data ==
    /\ threads.reload.pc = "resume"
    /\ \E r \in {load_resume_data(disk)} :
        /\ resume_data' = IF r.exc THEN resume_data ELSE r.val
        /\ threads' = [threads EXCEPT !.reload = [pc |-> IF r.exc THEN "idle" ELSE "faiss"]]
    /\ UNCHANGED <<faiss_index, bm25_data, disk, chat_context, queries, loaded_from,
                   owners, last>>

\* line 331: self.faiss_index = self._load_faiss_index()
Reload_faiss_index ==
    /\ threads.reload.pc = "faiss"
    /\ \E f \in {load_faiss_index(disk)} :
        /\ faiss_index' = IF f.exc THEN faiss_index ELSE f.val
        /\ threads' = [threads EXCEPT !.reload = [pc |-> IF f.exc THEN "idle" ELSE "bm25"]]
    /\ UNCHANGED <<resume_data, bm25_data, disk, chat_context, queries, loaded_from,
                   owners, last>>

\* line 337: self.bm25_data = self._load_bm25_data()
Reload_bm25_data ==
    /\ threads.reload.pc = "bm25"
    /\ \E b \in {load_bm25_data(disk)} :
        /\ bm25_data' = IF b.exc THEN bm25_data ELSE b.val
        /\ threads' = [threads EXCEPT !.reload = [pc |-> "idle"]]
    /\ loaded_from' = [by |-> "reload", files |-> disk]
    /\ UNCHANGED <<resume_data, faiss_index, disk, chat_context, queries, owners, last>>

\* the call a finished retrieval leaves: the fragments, and the artifacts
\* the dense path read (none on the lexical path)
Retrieved(t, result, index_used, corpus_used) ==
    [op |-> "semantic_retrieve", query |-> t.query, top_k |-> t.top_k,
     result |-> result, index_used |-> index_used, corpus_used |-> corpus_used]

\* lines 109-115: the test of self.faiss_index and self.bm25_data, then the
\* embedding call; without both artifacts or without an embedding the
\* lexical retrieval answers
Retrieve_begin ==
    /\ last = Idle
    /\ threads.retrieve.pc = "idle"
    /\ \E query \in Queries, top_k \in 1..MaxK, embed \in {"ok", "fail"} :
        LET t == [pc |-> "search", query |-> query, top_k |-> top_k]
        IN  IF ~faiss_index.present \/ bm25_data.empty \/ embed = "fail"
            THEN /\ last' = Retrieved(t, bm25_retrieve(Self, query, top_k), NoIndex, <<>>)
                 /\ UNCHANGED threads
            ELSE /\ threads' = [threads EXCEPT !.retrieve = t]
                 /\ UNCHANGED last
    /\ UNCHANGED <<resume_data, faiss_index, bm25_data, disk, chat_context, queries,
                   loaded_from, owners>>

\* line 119: self.faiss_index.search(query_embedding, top_k) on the index
\* the attribute holds now; a failing search (or an index that is None by
\* now) is answered by the lexical retrieval
Retrieve_search ==
    /\ threads.retrieve.pc = "search"
    /\ \E env \in {e \in RetrievalEnvs(faiss_index.ntotal, threads.retrieve.top_k) :
                        e.embed = "ok"} :
        IF env.search_raises \/ ~faiss_index.present
        THEN /\ last' = Retrieved(threads.retrieve,
                                  bm25_retrieve(Self, threads.retrieve.query,
                                                threads.retrieve.top_k),
                                  NoIndex, <<>>)
             /\ threads' = [threads EXCEPT !.retrieve = [pc |-> "idle"]]
        ELSE /\ threads' = [threads EXCEPT !.retrieve =
                    [pc |-> "lookup", query |-> threads.retrieve.query,
                     top_k |-> threads.retrieve.top_k, env |-> env,
                     index_used |-> faiss_index]]
             /\ UNCHANGED last
    /\ UNCHANGED <<resume_data, faiss_index, bm25_data, disk, chat_context, queries,
                   loaded_from, owners>>

\* lines 122-137: self.bm25_data.get('flat_resume', []) as the attribute
\* holds now, the look-up of the hits in it and the sort
Retrieve_lookup ==
    /\ threads.retrieve.pc = "lookup"
    /\ last' = Retrieved(threads.retrieve,
                         dense_ranking(Self, threads.retrieve.top_k, threads.retrieve.env),
                         threads.retrieve.index_used, bm25_data.flat_resume)
    /\ threads' = [threads EXCEPT !.retrieve = [pc |-> "idle"]]
    /\ UNCHANGED <<resume_data, faiss_index, bm25_data, disk, chat_context, queries,
                   loaded_from, owners>>

\* the caller takes the result
Retrieve_return ==
    /\ last # Idle
    /\ last' = Idle
    /\ UNCHANGED <<resume_data, faiss_index, bm25_data, disk, chat_context, queries,
                   loaded_from, owners, threads>>

InitSwap == Loaded(DiskOf(IndexFile(Len(CorpusA)), PickleFile("ok", CorpusA)))

NextSwap ==
    \/ Reload_run_job
    \/ Reload_resume_data
    \/ Reload_faiss_index
    \/ Reload_bm25_data
    \/ Retrieve_begin
    \/ Retrieve_search
    \/ Retrieve_lookup
    \/ Retrieve_return

SpecSwap == InitSwap /\ [][NextSwap]_vars

----------------------------------------------------------------------------
(* Claims about the engine's functions *)

IsRetrieval == last.op \in {"semantic_retrieve", "bm25_retrieve", "retrieve"}

IsAnswer(c) ==
    /\ c.kind \in {"text", "apology", "intro", "greeting", "project", "skill",
                   "contact", "about", "not_sure"}
    /\ c.note \in {"", "ES", "EN"}

\* C1: whatever the input, the history and the outcomes of the translation
\* service, the embedding service, the dense index, the lexical data and the
\* generative model, process_query returns an answer text and a coverage
\* number and propagates no exception.
C1_ProcessQueryNeverRaises ==
    last.op = "process_query" =>
        /\ ~last.result.exc
        /\ IsAnswer(last.result.response)
        /\ last.result.coverage \in 0..100

\* C1, witness: a call returned although every external call failed and the
\* lexical scorer is unusable.
C1_EverythingFailed ==
    /\ last.op = "process_query"
    /\ last.detect = "fail" /\ last.translate = "fail"
    /\ last.search_raises
    /\ bm25_data.bm25 = "broken"
    /\ ~last.gpt.ok /\ last.result.path = "templated"
    /\ ~last.result.exc

LexicalUnusable == bm25_data.empty \/ bm25_data.bm25 # "ok" \/ bm25_data.flat_resume = <<>>

\* C2: retrieval never raises: a failed embedding call or a failed dense
\* search demotes to the lexical path, missing or failing lexical structures
\* give the empty sequence, and that empty sequence is an ordinary result.
C2_RetrievalNeverRaises ==
    IsRetrieval =>
        /\ ~last.result.exc
        /\ (last.op # "bm25_retrieve" /\ (last.env.embed = "fail" \/ last.env.search_raises)
                => last.result.path = "lexical")
        /\ (last.result.path = "lexical" /\ LexicalUnusable => last.result.val = <<>>)

\* C2, witness: the dense search raised with an unusable scorer loaded, and
\* the caller got the empty sequence.
C2_DenseFailedScorerBroken ==
    /\ last.op = "semantic_retrieve"
    /\ faiss_index.present /\ bm25_data.bm25 = "broken"
    /\ last.env.search_raises
    /\ ~last.result.exc /\ last.result.val = <<>>

DenseUnavailable ==
    \/ ~faiss_index.present
    \/ bm25_data.empty
    \/ last.env.embed = "fail"
    \/ last.env.search_raises

\* C3: when the dense path is unavailable, _semantic_retrieve(query, k)
\* returns what _bm25_retrieve(query, k) returns, and what it would return
\* with no dense index loaded at all.
C3_UnavailableDenseIsLexical ==
    last.op = "semantic_retrieve" /\ DenseUnavailable =>
        /\ last.result.val = bm25_retrieve(Self, last.query, last.top_k).val
        /\ last.result.val =
              semantic_retrieve([Self EXCEPT !.faiss_index = NoIndex],
                                last.query, last.top_k, last.env).val

\* C3, witness: a loaded index whose search raised, and a non-empty lexical
\* result.
C3_SearchFailedLexicalAnswer ==
    /\ last.op = "semantic_retrieve"
    /\ faiss_index.present /\ last.env.embed = "ok" /\ last.env.search_raises
    /\ last.result.val # <<>>

CorpusContents == {bm25_data.flat_resume[i].content : i \in 1..Len(bm25_data.flat_resume)}

LexicalScores == get_scores(bm25_data.flat_resume, Split(last.query))

\* C4: for k > 0 retrieval returns at most k fragments, each the content of
\* a fragment of the loaded corpus; the dense path returns the in-range hits
\* by ascending distance, the lexical path the k best-scored fragments by
\* descending score.
C4_AtMostKFromCorpusInOrder ==
    last.op \in {"semantic_retrieve", "bm25_retrieve"} =>
        LET r == last.result
            n == Len(r.scored)
        IN  /\ Len(r.val) <= last.top_k
            /\ \A i \in 1..Len(r.val) : r.val[i] \in CorpusContents
            /\ Len(r.val) = n
            /\ \A i \in 1..n :
                  r.val[i] = bm25_data.flat_resume[r.scored[i].idx + 1].content
            /\ r.path = "dense" =>
                  /\ \A i, j \in 1..n : i < j => r.scored[i].score <= r.scored[j].score
                  /\ \A i \in 1..n : \E h \in 1..Len(last.env.hits) :
                        /\ last.env.hits[h].idx = r.scored[i].idx
                        /\ last.env.hits[h].dist = r.scored[i].score
                  /\ \A h \in 1..Len(last.env.hits) :
                        LET idx == last.env.hits[h].idx
                        IN  (\E i \in 1..n : r.scored[i].idx = idx)
                                <=> (0 <= idx /\ idx < Len(bm25_data.flat_resume))
            /\ r.path = "lexical" /\ ~LexicalUnusable =>
                  /\ \A i, j \in 1..n : i < j => r.scored[i].score >= r.scored[j].score
                  /\ \A i \in 1..n : r.scored[i].score = LexicalScores[r.scored[i].idx + 1]
                  /\ \A f \in 1..Len(bm25_data.flat_resume) :
                        (\A i \in 1..n : r.scored[i].idx # f - 1)
                            => \A i \in 1..n : LexicalScores[f] <= r.scored[i].score

\* C4, witness: a dense search that named a position outside the loaded
\* corpus, which was skipped, and returned the other fragments.
C4_OutOfRangeHitSkipped ==
    /\ last.op = "semantic_retrieve"
    /\ last.result.path = "dense"
    /\ \E h \in 1..Len(last.env.hits) : last.env.hits[h].idx >= Len(bm25_data.flat_resume)
    /\ Len(last.result.val) = 2
    /\ last.result.scored[1].score < last.result.scored[2].score

\* C5: a failed generative-model call gets the templated fallback only when
\* the failure is quota or rate limiting; any other kind of failure gets the
\* fixed apology.
C5_TemplatedOnlyForQuota ==
    last.op = "call_gpt4o" /\ ~last.gpt.ok =>
        /\ last.result.path = "templated" => last.gpt.kind \in {"quota", "rate_limit"}
        /\ last.gpt.kind \notin {"quota", "rate_limit"} => last.result.val = Apology

IsUserTurn(t) == t.role = "user"
UserTurns(history) == Len(SelectSeq(history, IsUserTurn))

\* C6: the coverage returned for a history with u user turns is
\* min((u+1)/5, 1.0) (here in hundredths), within [0,1], not smaller than
\* the coverage of any history with fewer user turns, whatever happened to
\* retrieval and whichever answer path was taken.
C6_CoverageIsTurnCount ==
    last.op \in {"process_query", "get_context_coverage"} =>
        LET u == UserTurns(last.chat_history)
            coverage == IF last.op = "process_query"
                        THEN last.result.coverage ELSE last.result.val
        IN  /\ coverage = Min(((u + 1) * 100) \div 5, 100)
            /\ coverage \in 0..100
            /\ \A h \in Histories :
                  UserTurns(h) <= u => get_context_coverage(<<>>, h).val <= coverage

\* C6, witness: a history of five user turns, where the cap applies,
\* answered by the apology after retrieval found nothing.
C6_CappedAfterFailedRetrieval ==
    /\ last.op = "process_query"
    /\ UserTurns(last.chat_history) = 5
    /\ last.result.coverage = 100
    /\ last.result.context = <<>>
    /\ last.result.path = "apology"

MatchesAny(words, text) == \E w \in words : Contains(Lower(text), w)

LatestUserIndex(messages) ==
    IF \E i \in 1..Len(messages) : messages[i].role = "user"
    THEN CHOOSE i \in 1..Len(messages) :
            /\ messages[i].role = "user"
            /\ \A j \in (i + 1)..Len(messages) : messages[j].role # "user"
    ELSE 0

LatestUserText(messages) ==
    IF LatestUserIndex(messages) = 0 THEN <<>>
    ELSE messages[LatestUserIndex(messages)].content.text

\* C8: the templated fallback tests the keyword sets on the latest user
\* message in the order greeting, project/work, skill/technology, contact,
\* about/background; the first set with a keyword contained in the message
\* decides the template, no match gives the 'not sure' message, and a
\* message with a greeting word and a project word gets the greeting.
C8_FirstMatchingSetWins ==
    last.op = "bm25_response" /\ LatestUserText(last.messages) # <<>> =>
        LET text == LatestUserText(last.messages)
            g == MatchesAny(GreetingWords, text)
            p == MatchesAny(ProjectWords, text)
            k == MatchesAny(SkillWords, text)
            c == MatchesAny(ContactWords, text)
            a == MatchesAny(AboutWords, text)
            category == last.result.category
        IN  /\ last.result.val.kind = category
            /\ (category = "greeting") <=> g
            /\ (category = "project") <=> (~g /\ p)
            /\ (category = "skill") <=> (~g /\ ~p /\ k)
            /\ (category = "contact") <=> (~g /\ ~p /\ ~k /\ c)
            /\ (category = "about") <=> (~g /\ ~p /\ ~k /\ ~c /\ a)
            /\ (category = "not_sure") <=> (~g /\ ~p /\ ~k /\ ~c /\ ~a)

\* C8, witness: a message with a greeting word and a project word, answered
\* with the greeting template.
C8_GreetingBeatsProject ==
    /\ last.op = "bm25_response"
    /\ LatestUserText(last.messages) = MsgHiProject
    /\ MatchesAny(ProjectWords, MsgHiProject)
    /\ last.result.val.kind = "greeting"

\* C9: the templated answer is determined by the latest user turn's text
\* and the lexical data alone: its snippet comes from its own top-2 lexical
\* retrieval for that text, and the context argument, the earlier turns, the
\* dense index and the failure reported by the model do not change it;
\* without a user turn it is the fixed greeting.
C9_TemplatedAnswerDependsOnMessageAndCorpus ==
    /\ last.op = "bm25_response" =>
        LET text == LatestUserText(last.messages)
            own == JoinLines(bm25_retrieve(Self, text, 2).val)
        IN  /\ LatestUserIndex(last.messages) = 0 => last.result.val = Intro
            /\ ~last.result.exc
            /\ last.result.val.snippet \in {<<>>, Take(own, 200)}
            /\ last.result.val.kind \in {"project", "skill", "about"}
                  => last.result.val.snippet = Take(own, 200)
            /\ \A m \in MessageLists :
                  /\ (LatestUserIndex(m) = 0) = (LatestUserIndex(last.messages) = 0)
                  /\ LatestUserText(m) = text
                  => \A c \in Contexts, f \in {NoIndex, FlatIndex(Len(CorpusA))} :
                        bm25_response([Self EXCEPT !.faiss_index = f], m, c).val
                            = last.result.val
    /\ last.op = "call_gpt4o" /\ last.result.path = "templated" =>
        \A c \in Contexts :
            last.result.val = bm25_response(Self, last.messages, c).val

\* C9, witness: a templated answer whose snippet is not the context that was
\* passed in, for a message list with an earlier user turn.
C9_SnippetNotFromContextArgument ==
    /\ last.op = "bm25_response"
    /\ last.context # <<>>
    /\ last.result.val.snippet # <<>>
    /\ last.result.val.snippet # Take(last.context, 200)
    /\ LatestUserIndex(last.messages) > 1
    /\ last.messages[1].role = "user"

----------------------------------------------------------------------------
(* Claims about the web layer *)

\* C7: in a conversation through /chat each query adds 20% coverage: the
\* n-th answered query reports min(n/5, 1.0), so the fifth and every later
\* one report 1.0.
C7_NthQueryReportsNFifths ==
    last.op = "chat" /\ last.answered =>
        last.context_coverage = Min((last.n * 100) \div 5, 100)

\* C10: when a reload fails (the ingestion job exits with an error, or an
\* artifact cannot be read), /update-resume answers with an error status and
\* the fragment data, dense index and lexical data loaded before stay as
\* they were.
C10_FailedReloadIsReported ==
    last.op = "update_resume" /\ (last.job_failed \/ last.index_unreadable) =>
        /\ last.status = "error"
        /\ Self = last.before

\* C11: when the reload steps read a corrupt dense-index file, reload does
\* not raise and the in-memory dense index is none afterwards; every
\* retrieval after that reload returns what the lexical path returns, without
\* error.
C11_CorruptIndexReloadsToLexical ==
    loaded_from.by = "reload" /\ loaded_from.files.faiss.state = "corrupt" =>
        /\ ~faiss_index.present
        /\ last.op = "update_resume" => last.status = "success"
        /\ last.op = "semantic_retrieve" =>
            /\ ~last.result.exc
            /\ last.result.path = "lexical"
            /\ last.result.val = bm25_retrieve(Self, last.query, last.top_k).val

\* C11, witness: a retrieval that found fragments lexically after a reload
\* that read a corrupt dense-index file.
C11_LexicalAnswerAfterCorruptReload ==
    /\ last.op = "semantic_retrieve"
    /\ loaded_from.by = "reload"
    /\ loaded_from.files.faiss.state = "corrupt"
    /\ last.env.embed = "ok"
    /\ last.result.val # <<>>

----------------------------------------------------------------------------
(* Claims about process_query *)

\* the outcomes of the external calls recorded with a process_query call
EnvOf(call) ==
    [detect |-> call.detect, translate |-> call.translate, embed |-> call.embed,
     search_raises |-> call.search_raises, hits |-> call.hits, gpt |-> call.gpt]

\* what the language service says about the input of the call, "en" when
\* detection failed
DetectedLanguage(call) ==
    IF call.detect = "ok" THEN Language(call.user_input) ELSE "en"

\* C12: the language note is appended exactly when the detected language is
\* not "en" (a failed detection counts as "en"), on every answer path, and
\* apart from the note the call is the one made had the language been
\* detected as English: same retrieval, same context, same prompt messages,
\* same answer text, same coverage.
C12_NoteOnlyAfterGeneration ==
    last.op = "process_query" =>
        LET english == process_query(Self, last.user_input, last.chat_history,
                                     [EnvOf(last) EXCEPT !.detect = "fail"])
            lang == DetectedLanguage(last)
        IN  /\ last.result.response.note = (IF lang # "en" THEN UpperLang(lang) ELSE "")
            /\ english.response.note = ""
            /\ [last.result.response EXCEPT !.note = ""] = english.response
            /\ last.result.sent = english.sent
            /\ last.result.context = english.context
            /\ last.result.retrieval = english.retrieval
            /\ last.result.path = english.path
            /\ last.result.coverage = english.coverage

\* C12, witness: a Spanish message answered by the templated fallback from
\* its English translation, with the note appended.
C12_SpanishTemplatedWithNote ==
    /\ last.op = "process_query"
    /\ last.user_input = MsgHola
    /\ last.detect = "ok"
    /\ last.translate = "ok"
    /\ last.result.path = "templated"
    /\ last.result.response.kind = "greeting"
    /\ last.result.response.note = "ES"

----------------------------------------------------------------------------
(* Claims about the history window of /chat *)

\* the window with the two turns of an answered request added to the log
LogAfter(call) ==
    call.before \o <<UserTurn(Strip(call.message)), AssistantTurn(call.response)>>

\* C13: the window never holds more than 5 turns; an answered request adds
\* the raw user input as a user turn followed by the response as an
\* assistant turn and the window is then the most recent 5 entries of the
\* log, the oldest being evicted first; an empty or whitespace-only message
\* leaves the window unchanged.
C13_WindowIsLatestFiveOfLog ==
    /\ Len(chat_context) <= ContextMaxLen
    /\ last.op = "chat" =>
        IF last.answered
        THEN /\ Len(chat_context) = Min(Len(last.before) + 2, ContextMaxLen)
             /\ \A i \in 1..Len(chat_context) :
                   chat_context[i] =
                       LogAfter(last)[Len(LogAfter(last)) - Len(chat_context) + i]
        ELSE chat_context = last.before

\* C13, witness: a request answered with a full window, whose two oldest
\* turns were evicted.
C13_TwoOldestEvicted ==
    /\ last.op = "chat"
    /\ last.answered
    /\ Len(last.before) = ContextMaxLen
    /\ chat_context[1] = last.before[3]
    /\ chat_context[1] # last.before[1]

\* C14: the window used to answer a message of one session holds only turns
\* of that session.
C14_WindowOfOneSession ==
    last.op = "chat" /\ last.answered =>
        \A i \in 1..Len(last.before_owners) : last.before_owners[i] = last.session_id

\* the English text process_query works with
NormalizedInput(call) ==
    IF call.translate = "ok" THEN Translation(call.user_input) ELSE call.user_input

\* C15: a process_query call leaves the history it was given as it was
\* (same turns, same order, same length) and leaves the loaded fragment data,
\* dense index and lexical data as they were loaded; the current turn is the
\* last entry of the message sequence built for the generation call only.
C15_ProcessQueryReadOnly ==
    last.op = "process_query" =>
        /\ last.result.chat_history = last.chat_history
        /\ Self = construct(disk).val
        /\ loaded_from.by = "init"
        /\ last.result.sent[Len(last.result.sent)] = UserTurn(NormalizedInput(last))

\* C15, witness: a call with a history of five turns, answered by the model
\* from dense retrieval.
C15_FullHistoryModelAnswer ==
    /\ last.op = "process_query"
    /\ Len(last.chat_history) = MaxHist
    /\ last.result.retrieval = "dense"
    /\ last.result.path = "model"
    /\ last.result.chat_history = last.chat_history

----------------------------------------------------------------------------
(* Claims about ingestion and reload *)

\* C16: after a run of the ingestion job followed by a reload, the dense
\* index and the lexical corpus in memory have the same number of fragments
\* (they were built from the same flattened sequence).
C16_IndexAndCorpusAligned ==
    loaded_from.by = "reload" /\ faiss_index.present /\ ~bm25_data.empty =>
        faiss_index.ntotal = Len(bm25_data.flat_resume)

\* C17: a retrieval that runs concurrently with a reload never uses a dense
\* index of one snapshot with the lexical corpus of another: the index it
\* searched has one vector per fragment of the corpus it looked the hits up
\* in.
C17_RetrievalUsesOneSnapshot ==
    last.op = "semantic_retrieve" /\ last.index_used.present =>
        last.index_used.ntotal = Len(last.corpus_used)

\* the number of invocations of a service in a call's trace
Invocations(calls, service) ==
    Cardinality({i \in 1..Len(calls) : calls[i] = service})

\* C18: within one process_query call the embedding service, the dense
\* index search and the generative model are each invoked at most once; a
\* failed embedding is followed by no dense search, a failed tier is not
\* invoked again, and the model is the last service invoked.
C18_EachTierAtMostOnce ==
    last.op = "process_query" =>
        LET calls == last.result.calls
        IN  /\ Invocations(calls, "embed") <= 1
            /\ Invocations(calls, "search") <= 1
            /\ Invocations(calls, "gpt") = 1
            /\ calls[Len(calls)] = "gpt"
            /\ Invocations(calls, "search") = 1 =>
                    /\ last.embed = "ok"
                    /\ Invocations(calls, "embed") = 1
            /\ Invocations(calls, "embed") = 1 /\ last.embed = "fail" =>
                    /\ Invocations(calls, "search") = 0
                    /\ last.result.retrieval = "lexical"
            /\ Invocations(calls, "search") = 1 /\ last.search_raises =>
                    last.result.retrieval = "lexical"

\* C18, witness: the dense search failed and the model failed for quota:
\* lexical retrieval and the templated answer, each service invoked once.
C18_BothTiersDemotedOnce ==
    /\ last.op = "process_query"
    /\ last.search_raises
    /\ last.gpt.kind = "quota"
    /\ last.result.calls = <<"detect", "translate", "embed", "search", "gpt">>
    /\ last.result.retrieval = "lexical"
    /\ last.result.path = "templated"
    /\ last.result.context # <<>>

\* history + current turn, as process_query builds it
AllTurns(call) == Append(call.chat_history, UserTurn(NormalizedInput(call)))

\* C19: the list sent to the model is one system message followed by the
\* last 5 turns of (history + current turn): never more than 5 non-system
\* turns, the final one the current normalized user turn, and with a history
\* of 5 turns the oldest is left out.
C19_PromptIsSystemPlusLastFive ==
    last.op = "process_query" =>
        LET sent == last.result.sent
            turns == AllTurns(last)
            n == Len(sent) - 1
        IN  /\ sent[1].role = "system"
            /\ n = Min(Len(turns), 5)
            /\ \A i \in 1..n :
                   /\ sent[1 + i].role # "system"
                   /\ sent[1 + i] = turns[Len(turns) - n + i]
            /\ sent[Len(sent)] = UserTurn(NormalizedInput(last))
            /\ Len(last.chat_history) = 5 =>
                   /\ sent[2] = last.chat_history[2]
                   /\ Len(sent) = 6

\* C19, witness: a dialogue of five turns handed over: the prompt starts at
\* its second turn.
C19_OldestTurnOmitted ==
    /\ last.op = "process_query"
    /\ Len(last.chat_history) = 5
    /\ last.chat_history[1] # last.chat_history[2]
    /\ last.result.sent[2] = last.chat_history[2]
    /\ last.result.path = "model"

----------------------------------------------------------------------------
(* Claims about lexical retrieval *)

\* C20: with the lexical structures present and n > 0 fragments, lexical
\* retrieval with k > 0 returns exactly min(k, n) fragments at pairwise
\* distinct positions for every query, also when every score is equal; the
\* empty result occurs only when the structures are absent or the scoring
\* fails.
C20_LexicalReturnsMinKN ==
    last.op = "bm25_retrieve" =>
        LET n == Len(bm25_data.flat_resume)
            scored == last.result.scored
        IN  /\ ~last.result.exc
            /\ ~bm25_data.empty /\ bm25_data.bm25 = "ok" /\ n > 0 =>
                /\ Len(last.result.val) = Min(last.top_k, n)
                /\ \A i, j \in 1..Len(scored) : i # j => scored[i].idx # scored[j].idx
                /\ \A i \in 1..Len(scored) :
                       last.result.val[i] = bm25_data.flat_resume[scored[i].idx + 1].content
            /\ last.result.val = <<>> =>
                bm25_data.empty \/ bm25_data.bm25 # "ok" \/ n = 0

\* C20, witness: a query none of whose terms occurs in the corpus, with k
\* above the number of fragments: every fragment is returned with score 0.
C20_AllScoresEqualStillReturned ==
    /\ last.op = "bm25_retrieve"
    /\ last.query = MsgNone
    /\ last.top_k > Len(bm25_data.flat_resume)
    /\ Len(last.result.val) = Len(bm25_data.flat_resume)
    /\ Len(last.result.val) >= 2
    /\ \A i \in 1..Len(last.result.scored) : last.result.scored[i].score = 0

====
